---------------------------- MODULE Spec2Model ----------------------------
(***************************************************************************)
(* A model of flow/include/dispatch.h and flow/include/dispatch/           *)
(* dispatch_ostream.h: StampTraits, Dispatch, CaptureRange and their       *)
(* stream output.                                                          *)
(*                                                                         *)
(* The library is a set of templates; the template argument StampT is the  *)
(* variable S, fixed when a program is instantiated.  Stamp types are      *)
(* modelled with their widths scaled down to StampBits bits:               *)
(*   "signed"     a signed integer type (two's complement)                 *)
(*   "unsigned"   an unsigned integer type                                 *)
(*   "floating"   a binary floating-point type with one mantissa bit,      *)
(*                subnormals, infinities and a NaN                         *)
(*   "time_point" std::chrono::time_point over a signed integer rep        *)
(*   "bool"       bool (only as an argument of StampTraits)                *)
(* ValueT is std::string, as in the library's usage example.               *)
(***************************************************************************)
EXTENDS Integers, Sequences, FiniteSets, TLC

VARIABLES
    S,        \* the template argument StampT of the instantiation
    disp,     \* Dispatch objects: slot -> NoDispatch or [stamp_, value_]
    dargs,    \* history: the constructor arguments each Dispatch was built from
    ret,      \* per reader thread, its latest call on a Dispatch and the result
    call,     \* the latest call on a CaptureRange and its result
    range,    \* CaptureRange objects: slot -> NoRange or [lower_stamp, upper_stamp]
    ops,      \* three Dispatch operands of an ordering test
    lt,       \* the matrix of operator< over ops, once computed
    probe,    \* a value of type S tested against StampTraits<S>
    tmin,     \* result of StampTraits<S>::min(), once called
    tmax      \* result of StampTraits<S>::max(), once called

vars == <<S, disp, dargs, ret, call, range, ops, lt, probe, tmin, tmax>>

---------------------------------------------------------------------------
(* Bounds *)

\* width, in bits, of the modelled integer stamp types
StampBits == 3

\* largest exponent of the modelled floating-point stamp type
FloatEMax == 2

---------------------------------------------------------------------------
(* Stamp types and their values *)

RECURSIVE Pow2(_)
Pow2(n) ==
    IF n = 0 THEN 1 ELSE 2 * Pow2(n - 1)

\* std::numeric_limits<T> of a signed integer type
SignedMin == -Pow2(StampBits - 1)
SignedMax == Pow2(StampBits - 1) - 1

\* std::numeric_limits<T> of an unsigned integer type
UnsignedMax == Pow2(StampBits) - 1

\* The floating-point type, in units of its smallest subnormal: the subnormal
\* 1, the normals 2^e and 3 * 2^(e-1) for e in 1..FloatEMax, zero, their
\* negatives, the two infinities and a NaN.  Infinity is coded as the first
\* power of two past the largest finite value, NaN as the code after it.
FloatNormMin == Pow2(1)
FloatMax == 3 * Pow2(FloatEMax - 1)
FloatInf == Pow2(FloatEMax + 1)
FloatNaN == FloatInf + 1

FloatMagnitudes ==
    {0, 1}
      \cup {Pow2(e) : e \in 1..FloatEMax}
      \cup {3 * Pow2(e - 1) : e \in 1..FloatEMax}

FloatValues ==
    FloatMagnitudes \cup {-m : m \in FloatMagnitudes}
      \cup {FloatInf, -FloatInf, FloatNaN}

IntegralTypes == {"signed", "unsigned"}

\* the types a Dispatch or a CaptureRange is instantiated with
StampTypes == {"signed", "unsigned", "floating", "time_point"}

\* the types StampTraits is instantiated with
TraitTypes == StampTypes \cup {"bool"}

StampValues(T) ==
    CASE T = "signed"     -> SignedMin..SignedMax
      [] T = "unsigned"   -> 0..UnsignedMax
      [] T = "floating"   -> FloatValues
      [] T = "time_point" -> SignedMin..SignedMax
      [] T = "bool"       -> {0, 1}

\* the built-in a < b of stamp type T; every comparison with a NaN is false
StampLess(T, a, b) ==
    IF T = "floating" /\ (a = FloatNaN \/ b = FloatNaN) THEN FALSE ELSE a < b

\* the built-in a <= b of stamp type T
StampLessEq(T, a, b) ==
    IF T = "floating" /\ (a = FloatNaN \/ b = FloatNaN) THEN FALSE ELSE a <= b

\* the built-in a == b of stamp type T; a NaN equals nothing, itself included
StampEq(T, a, b) ==
    IF T = "floating" /\ (a = FloatNaN \/ b = FloatNaN) THEN FALSE ELSE a = b

\* ValueT = std::string
Values == {"x", "y"}

Threads == {"t1", "t2"}

---------------------------------------------------------------------------
(* StampTraits<StampT> *)

\* std::numeric_limits<T>::min(): the lowest value of an integer type, the
\* smallest positive normal value of a floating-point type
NumericLimitsMin(T) ==
    CASE T = "signed"   -> SignedMin
      [] T = "unsigned" -> 0
      [] T = "floating" -> FloatNormMin
      [] T = "bool"     -> 0

\* std::numeric_limits<T>::max(): the largest finite value
NumericLimitsMax(T) ==
    CASE T = "signed"   -> SignedMax
      [] T = "unsigned" -> UnsignedMax
      [] T = "floating" -> FloatMax
      [] T = "bool"     -> 1

\* StampTraits<StampT>::min().  The primary template returns
\* std::numeric_limits<StampT>::min(); the time_point specialization returns
\* stamp_type::min(), the time point of the lowest value of its rep.
\* The primary template also names std::make_signed<StampT>::type, which is
\* outside make_signed's precondition for bool and the floating-point types:
\* a build that rejects it has no behaviours, a build that accepts it
\* returns the values below.
StampTraitsMin(T) ==
    IF T = "time_point" THEN SignedMin ELSE NumericLimitsMin(T)

\* Faulty variant of StampTraitsMax: returns the minimum
StampTraitsMaxIsMin(T) ==
    StampTraitsMin(T)

\* StampTraits<StampT>::max()
StampTraitsMax(T) ==
    IF T = "time_point" THEN SignedMax ELSE NumericLimitsMax(T)

---------------------------------------------------------------------------
(* Dispatch<StampT, ValueT> *)

DispIds == {"d1", "d2"}

NoDispatch == [alive |-> FALSE]

NoCall == [op |-> "none"]

\* Faulty variant of DispatchCtor: value_{} instead of forwarding value_args
DispatchCtorNoForward(stamp, value) ==
    [alive |-> TRUE, stamp_ |-> stamp, value_ |-> ""]

\* Dispatch(const StampT& stamp, ValueArgsTs&&... value_args)
DispatchCtor(stamp, value) ==
    [alive |-> TRUE, stamp_ |-> stamp, value_ |-> value]

\* const StampT& Dispatch::stamp() const
DispatchStamp(d) == d.stamp_

\* const ValueT& Dispatch::data() const
DispatchData(d) == d.value_

\* Faulty variant of DispatchLess: ties on the stamp broken by the value
DispatchLessByValue(T, this, other) ==
    \/ StampLess(T, this.stamp_, other.stamp_)
    \/ this.stamp_ = other.stamp_ /\ this.value_ = "x" /\ other.value_ = "y"

\* Faulty variant of DispatchLess: <= in place of <
DispatchLessOrEqual(T, this, other) ==
    StampLessEq(T, this.stamp_, other.stamp_)

\* bool Dispatch::operator<(const Dispatch& other) const
DispatchLess(T, this, other) ==
    StampLess(T, this.stamp_, other.stamp_)

---------------------------------------------------------------------------
(* CaptureRange<StampT> *)

RangeIds == {"r1"}

NoRange == [alive |-> FALSE]

\* Faulty variant of CaptureRangeCtor: an inverted range is put in order
CaptureRangeCtorSorted(_lower_stamp, _upper_stamp) ==
    IF _lower_stamp > _upper_stamp
    THEN [alive |-> TRUE, lower_stamp |-> _upper_stamp, upper_stamp |-> _lower_stamp]
    ELSE [alive |-> TRUE, lower_stamp |-> _lower_stamp, upper_stamp |-> _upper_stamp]

\* CaptureRange(const StampT _lower_stamp, const StampT _upper_stamp)
CaptureRangeCtor(_lower_stamp, _upper_stamp) ==
    [alive |-> TRUE, lower_stamp |-> _lower_stamp, upper_stamp |-> _upper_stamp]

---------------------------------------------------------------------------
(* Stream output *)

Digits == <<"0", "1", "2", "3", "4", "5", "6", "7", "8", "9">>

\* the decimal digits std::ostream writes for a non-negative integer
RECURSIVE DecDigits(_)
DecDigits(n) ==
    IF n < 10 THEN <<Digits[n + 1]>>
    ELSE DecDigits(n \div 10) \o <<Digits[(n % 10) + 1]>>

\* std::ostream& operator<<(int): a minus sign for a negative value, then the
\* decimal digits, no padding
Dec(n) ==
    IF n < 0 THEN <<"-">> \o DecDigits(-n) ELSE DecDigits(n)

\* the stream contents an operator<< call may find in os
Priors == {<<>>, <<"[">>}

\* friend std::ostream& operator<<(std::ostream& os, const Dispatch& dispatch)
\* (os << dispatch resolves to this friend; the Dispatch template of
\* dispatch_ostream.h names dispatch.stamp and dispatch.value, cannot be
\* instantiated, and is not modelled)
OstreamDispatch(prior, dispatch) ==
    prior \o <<"stamp: ">> \o Dec(dispatch.stamp_)
          \o <<"\nvalue: ">> \o <<dispatch.value_>>

\* Faulty variant of OstreamCaptureRange: the upper bound is written first
OstreamCaptureRangeSwapped(prior, r) ==
    prior \o <<"lower_stamp: ">> \o Dec(r.upper_stamp)
          \o <<", upper_stamp: ">> \o Dec(r.lower_stamp)

\* friend std::ostream& operator<<(std::ostream& os, const CaptureRange& range)
OstreamCaptureRange(prior, r) ==
    prior \o <<"lower_stamp: ">> \o Dec(r.lower_stamp)
          \o <<", upper_stamp: ">> \o Dec(r.upper_stamp)

\* template <typename StampT>
\* std::ostream& operator<<(std::ostream& os, const CaptureRange<StampT>& range)
OstreamCaptureRangeTemplate(prior, r) ==
    prior \o <<"lower_stamp: ">> \o Dec(r.lower_stamp)
          \o <<", upper_stamp: ">> \o Dec(r.upper_stamp)

---------------------------------------------------------------------------
(* A program that builds Dispatch objects and shares them among reader      *)
(* threads.  Stream output is modelled for the integral stamp types, whose  *)
(* operator<< writes decimal digits.                                        *)

Init ==
    /\ S \in StampTypes
    /\ disp = [d \in DispIds |-> NoDispatch]
    /\ dargs = [d \in DispIds |-> NoCall]
    /\ ret = [t \in Threads |-> NoCall]
    /\ call = NoCall
    /\ range = <<>>
    /\ ops = <<>>
    /\ lt = <<>>
    /\ probe = 0
    /\ tmin = {}
    /\ tmax = {}

Construct(d, stamp, value) ==
    /\ disp[d] = NoDispatch
    /\ disp' = [disp EXCEPT ![d] = DispatchCtor(stamp, value)]
    /\ dargs' = [dargs EXCEPT ![d] = [op |-> "ctor", stamp |-> stamp, value |-> value]]
    /\ UNCHANGED <<S, ret, call, range, ops, lt, probe, tmin, tmax>>

Stamp(t, d) ==
    /\ disp[d] # NoDispatch
    /\ ret' = [ret EXCEPT ![t] = [op |-> "stamp", self |-> d,
                                val |-> DispatchStamp(disp[d])]]
    /\ UNCHANGED <<S, disp, dargs, call, range, ops, lt, probe, tmin, tmax>>

\* Faulty variant of Data: the value is moved out of the object
DataMovesOut(t, d) ==
    /\ disp[d] # NoDispatch
    /\ ret' = [ret EXCEPT ![t] = [op |-> "data", self |-> d,
                                val |-> DispatchData(disp[d])]]
    /\ disp' = [disp EXCEPT ![d].value_ = ""]
    /\ UNCHANGED <<S, dargs, call, range, ops, lt, probe, tmin, tmax>>

Data(t, d) ==
    /\ disp[d] # NoDispatch
    /\ ret' = [ret EXCEPT ![t] = [op |-> "data", self |-> d,
                                val |-> DispatchData(disp[d])]]
    /\ UNCHANGED <<S, disp, dargs, call, range, ops, lt, probe, tmin, tmax>>

Less(t, d, e) ==
    /\ disp[d] # NoDispatch
    /\ disp[e] # NoDispatch
    /\ ret' = [ret EXCEPT ![t] = [op |-> "less", self |-> d, other |-> e,
                                val |-> DispatchLess(S, disp[d], disp[e])]]
    /\ UNCHANGED <<S, disp, dargs, call, range, ops, lt, probe, tmin, tmax>>

Render(t, d, prior) ==
    /\ S \in IntegralTypes
    /\ disp[d] # NoDispatch
    /\ ret' = [ret EXCEPT ![t] = [op |-> "ostream", self |-> d, prior |-> prior,
                                val |-> OstreamDispatch(prior, disp[d])]]
    /\ UNCHANGED <<S, disp, dargs, call, range, ops, lt, probe, tmin, tmax>>

Next ==
    \/ \E d \in DispIds, stamp \in StampValues(S), value \in Values :
          Construct(d, stamp, value)
    \/ \E t \in Threads, d \in DispIds : Stamp(t, d)
    \/ \E t \in Threads, d \in DispIds : Data(t, d)
    \/ \E t \in Threads, d \in DispIds, e \in DispIds : Less(t, d, e)
    \/ \E t \in Threads, d \in DispIds, prior \in Priors : Render(t, d, prior)

Spec == Init /\ [][Next]_vars

---------------------------------------------------------------------------
(* A program that builds a CaptureRange, prints it and assigns its fields.  *)

InitRange ==
    /\ S \in StampTypes
    /\ disp = <<>>
    /\ dargs = <<>>
    /\ ret = <<>>
    /\ call = NoCall
    /\ range = [r \in RangeIds |-> NoRange]
    /\ ops = <<>>
    /\ lt = <<>>
    /\ probe = 0
    /\ tmin = {}
    /\ tmax = {}

\* Faulty variant of ConstructRangeDefault: value-initialised bounds
ConstructRangeDefaultZero(r) ==
    /\ range[r] = NoRange
    /\ range' = [range EXCEPT ![r] = CaptureRangeCtor(0, 0)]
    /\ call' = [op |-> "ctor", self |-> r, args |-> <<>>]
    /\ UNCHANGED <<S, disp, dargs, ret, ops, lt, probe, tmin, tmax>>

\* CaptureRange<StampT>{}: both default arguments
ConstructRangeDefault(r) ==
    /\ range[r] = NoRange
    /\ range' = [range EXCEPT ![r] =
                    CaptureRangeCtor(StampTraitsMin(S), StampTraitsMax(S))]
    /\ call' = [op |-> "ctor", self |-> r, args |-> <<>>]
    /\ UNCHANGED <<S, disp, dargs, ret, ops, lt, probe, tmin, tmax>>

\* CaptureRange<StampT>{a}: the default argument for _upper_stamp
ConstructRangeLower(r, a) ==
    /\ range[r] = NoRange
    /\ range' = [range EXCEPT ![r] = CaptureRangeCtor(a, StampTraitsMax(S))]
    /\ call' = [op |-> "ctor", self |-> r, args |-> <<a>>]
    /\ UNCHANGED <<S, disp, dargs, ret, ops, lt, probe, tmin, tmax>>

\* CaptureRange<StampT>{a, b}
ConstructRange(r, a, b) ==
    /\ range[r] = NoRange
    /\ range' = [range EXCEPT ![r] = CaptureRangeCtor(a, b)]
    /\ call' = [op |-> "ctor", self |-> r, args |-> <<a, b>>]
    /\ UNCHANGED <<S, disp, dargs, ret, ops, lt, probe, tmin, tmax>>

\* os << range, resolved to the friend of dispatch.h
RenderRange(r, prior) ==
    /\ S \in IntegralTypes
    /\ range[r] # NoRange
    /\ call' = [op |-> "ostream", self |-> r, prior |-> prior,
                val |-> OstreamCaptureRange(prior, range[r])]
    /\ UNCHANGED <<S, disp, dargs, ret, range, ops, lt, probe, tmin, tmax>>

\* Faulty variant of RenderRangeTemplate: printing resets the lower bound
RenderRangeTemplateResets(r, prior) ==
    /\ S \in IntegralTypes
    /\ range[r] # NoRange
    /\ call' = [op |-> "ostream_template", self |-> r, prior |-> prior,
                val |-> OstreamCaptureRangeTemplate(prior, range[r])]
    /\ range' = [range EXCEPT ![r].lower_stamp = StampTraitsMin(S)]
    /\ UNCHANGED <<S, disp, dargs, ret, ops, lt, probe, tmin, tmax>>

\* flow::operator<< <StampT>(os, range), the template of dispatch_ostream.h
RenderRangeTemplate(r, prior) ==
    /\ S \in IntegralTypes
    /\ range[r] # NoRange
    /\ call' = [op |-> "ostream_template", self |-> r, prior |-> prior,
                val |-> OstreamCaptureRangeTemplate(prior, range[r])]
    /\ UNCHANGED <<S, disp, dargs, ret, range, ops, lt, probe, tmin, tmax>>

\* range.lower_stamp = stamp: lower_stamp is a public, non-const member
AssignLowerStamp(r, stamp) ==
    /\ range[r] # NoRange
    /\ range' = [range EXCEPT ![r].lower_stamp = stamp]
    /\ call' = [op |-> "assign_lower_stamp", self |-> r, args |-> <<stamp>>]
    /\ UNCHANGED <<S, disp, dargs, ret, ops, lt, probe, tmin, tmax>>

\* range.upper_stamp = stamp: upper_stamp is a public, non-const member
AssignUpperStamp(r, stamp) ==
    /\ range[r] # NoRange
    /\ range' = [range EXCEPT ![r].upper_stamp = stamp]
    /\ call' = [op |-> "assign_upper_stamp", self |-> r, args |-> <<stamp>>]
    /\ UNCHANGED <<S, disp, dargs, ret, ops, lt, probe, tmin, tmax>>

NextRange ==
    \/ \E r \in RangeIds : ConstructRangeDefault(r)
    \/ \E r \in RangeIds, a \in StampValues(S) : ConstructRangeLower(r, a)
    \/ \E r \in RangeIds, a \in StampValues(S), b \in StampValues(S) :
          ConstructRange(r, a, b)
    \/ \E r \in RangeIds, prior \in Priors : RenderRange(r, prior)
    \/ \E r \in RangeIds, prior \in Priors : RenderRangeTemplate(r, prior)
    \/ \E r \in RangeIds, stamp \in StampValues(S) : AssignLowerStamp(r, stamp)
    \/ \E r \in RangeIds, stamp \in StampValues(S) : AssignUpperStamp(r, stamp)

SpecRange == InitRange /\ [][NextRange]_vars

---------------------------------------------------------------------------
(* An ordering test: three Dispatch operands built from drawn arguments,   *)
(* compared pairwise with operator<.                                       *)

OrderIds == 1..3

InitOrder ==
    /\ S \in StampTypes
    /\ dargs \in [OrderIds -> [stamp : StampValues(S), value : Values]]
    /\ ops = [i \in OrderIds |-> DispatchCtor(dargs[i].stamp, dargs[i].value)]
    /\ lt = <<>>
    /\ disp = <<>>
    /\ ret = <<>>
    /\ call = NoCall
    /\ range = <<>>
    /\ probe = 0
    /\ tmin = {}
    /\ tmax = {}

CompareAll ==
    /\ lt = <<>>
    /\ lt' = [i \in OrderIds |->
                [j \in OrderIds |-> DispatchLess(S, ops[i], ops[j])]]
    /\ UNCHANGED <<S, disp, dargs, ret, call, range, ops, probe, tmin, tmax>>

NextOrder == CompareAll

SpecOrder == InitOrder /\ [][NextOrder]_vars

---------------------------------------------------------------------------
(* StampTraits<S> evaluated for every stamp type, against every value of S *)

InitTraits ==
    /\ S \in TraitTypes
    /\ probe \in StampValues(S)
    /\ tmin = {}
    /\ tmax = {}
    /\ disp = <<>>
    /\ dargs = <<>>
    /\ ret = <<>>
    /\ call = NoCall
    /\ range = <<>>
    /\ ops = <<>>
    /\ lt = <<>>

TraitsMin ==
    /\ tmin = {}
    /\ tmin' = {StampTraitsMin(S)}
    /\ UNCHANGED <<S, disp, dargs, ret, call, range, ops, lt, probe, tmax>>

TraitsMax ==
    /\ tmax = {}
    /\ tmax' = {StampTraitsMax(S)}
    /\ UNCHANGED <<S, disp, dargs, ret, call, range, ops, lt, probe, tmin>>

NextTraits == TraitsMin \/ TraitsMax

SpecTraits == InitTraits /\ [][NextTraits]_vars

---------------------------------------------------------------------------
(* Properties *)

\* the types std::is_fundamental admits to the primary StampTraits template
FundamentalTypes == {"signed", "unsigned", "floating", "bool"}

\* the finite values of a stamp type (every value of an integer type)
IsFinite(T, s) ==
    T = "floating" => s \notin {FloatInf, -FloatInf, FloatNaN}

DigitValue(c) ==
    CHOOSE n \in 0..9 : Digits[n + 1] = c

\* the number a sequence of decimal digits denotes
RECURSIVE ParseDigits(_)
ParseDigits(ds) ==
    IF Len(ds) = 1 THEN DigitValue(ds[1])
    ELSE 10 * ParseDigits(SubSeq(ds, 1, Len(ds) - 1)) + DigitValue(ds[Len(ds)])

ParseDec(ds) ==
    IF ds[1] = "-" THEN -ParseDigits(Tail(ds)) ELSE ParseDigits(ds)

RenderOps == {"ostream", "ostream_template"}

\* C1: Dispatch(s1, v1) < Dispatch(s2, v2) is true exactly when s1 < s2,
\* whatever the values v1 and v2 are.
StampOnlyOrder ==
    lt # <<>> =>
        \A i \in OrderIds, j \in OrderIds :
            lt[i][j] <=> StampLess(S, dargs[i].stamp, dargs[j].stamp)

\* C1 happens: an operand with the larger value is less than one with the
\* smaller value, and two operands with one stamp and different values are
\* unordered in both directions.
StampOnlyOrderSeen ==
    /\ lt # <<>>
    /\ \E i \in OrderIds, j \in OrderIds, k \in OrderIds :
          /\ lt[i][j] /\ dargs[i].value = "y" /\ dargs[j].value = "x"
          /\ dargs[j].stamp = dargs[k].stamp /\ dargs[j].value # dargs[k].value
          /\ ~lt[j][k] /\ ~lt[k][j]

\* C2: stamp() returns the stamp and data() the value that the constructor
\* was given.
AccessorsReturnArguments ==
    \A t \in Threads :
        /\ ret[t].op = "stamp" => ret[t].val = dargs[ret[t].self].stamp
        /\ ret[t].op = "data" => ret[t].val = dargs[ret[t].self].value

\* C2 happens: stamp() and data() have both been called on one Dispatch.
AccessorsCalled ==
    \E t \in Threads, u \in Threads :
        /\ ret[t].op = "stamp" /\ ret[u].op = "data"
        /\ ret[t].self = ret[u].self
        /\ ret[t].val # 0

\* C3: a CaptureRange constructed without arguments has
\* lower_stamp = StampTraits<S>::min() and upper_stamp = StampTraits<S>::max().
DefaultRangeIsFullRange ==
    (call.op = "ctor" /\ call.args = <<>>) =>
        /\ range[call.self].lower_stamp = StampTraitsMin(S)
        /\ range[call.self].upper_stamp = StampTraitsMax(S)

\* C3 happens: a range of a signed stamp type was constructed without
\* arguments and its lower bound is negative.
DefaultRangeBuilt ==
    /\ call.op = "ctor" /\ call.args = <<>>
    /\ S = "signed"
    /\ range[call.self].lower_stamp < 0

\* C4: CaptureRange(a, b) can be constructed for every a and b, inverted or
\* not, and holds lower_stamp = a and upper_stamp = b.
ExplicitRangeKeepsArguments ==
    /\ \A r \in RangeIds, a \in StampValues(S), b \in StampValues(S) :
          range[r] = NoRange => ENABLED ConstructRange(r, a, b)
    /\ (call.op = "ctor" /\ Len(call.args) = 2) =>
          range[call.self] =
            [alive |-> TRUE, lower_stamp |-> call.args[1], upper_stamp |-> call.args[2]]

\* C4 happens: an inverted range was constructed.
InvertedRangeBuilt ==
    /\ call.op = "ctor" /\ Len(call.args) = 2
    /\ call.args[1] > call.args[2]
    /\ range[call.self].lower_stamp > range[call.self].upper_stamp

\* C5: for every fundamental stamp type, StampTraits<S>::min() is strictly
\* less than StampTraits<S>::max().
TraitsMinBelowMax ==
    (S \in FundamentalTypes /\ tmin # {} /\ tmax # {}) =>
        \A lo \in tmin, hi \in tmax : StampLess(S, lo, hi)

\* C5 happens: both limits of the floating-point type have been taken.
TraitsLimitsTaken ==
    S = "floating" /\ tmin # {} /\ tmax # {}

\* C6: min() <= s <= max() for every value s of a fundamental stamp type.
\* Stated for the finite values only, which every reading of the claim covers.
TraitsBoundEveryValue ==
    (S \in FundamentalTypes /\ IsFinite(S, probe) /\ tmin # {} /\ tmax # {}) =>
        \A lo \in tmin, hi \in tmax :
            StampLessEq(S, lo, probe) /\ StampLessEq(S, probe, hi)

\* C7: a constructed Dispatch keeps the stamp and the value it was
\* constructed with through every stamp(), data(), operator< and operator<<
\* of the reader threads.
DispatchKeepsFields ==
    \A d \in DispIds :
        disp[d] # NoDispatch =>
            /\ disp[d].stamp_ = dargs[d].stamp
            /\ disp[d].value_ = dargs[d].value

\* C7 happens: the two threads have compared and printed the same Dispatch,
\* the comparison being against the other Dispatch.
DispatchSharedByReaders ==
    /\ ret["t1"].op = "less" /\ ret["t2"].op = "ostream"
    /\ ret["t1"].self = ret["t2"].self
    /\ ret["t1"].other # ret["t1"].self

\* C8 as stated: no operation changes the bounds of a constructed
\* CaptureRange.
RangeNeverChanges ==
    [][\A r \in RangeIds : range[r] # NoRange => range'[r] = range[r]]_vars

\* C8 amended: the stream output of a CaptureRange, in either definition,
\* leaves its bounds unchanged (assigning the public fields does not).
RangeUnchangedByOutput ==
    [][call'.op \in RenderOps => range' = range]_vars

\* C8 amended happens: an inverted range has been printed by the template.
RangePrinted ==
    /\ call.op = "ostream_template"
    /\ range[call.self].lower_stamp > range[call.self].upper_stamp

\* C9: the text written for a CaptureRange is the label of the lower bound,
\* the lower bound, the label of the upper bound, the upper bound; the
\* numbers read back as the bounds; both definitions write the same text; and
\* CaptureRange<int32>(3, 9) gives "lower_stamp: 3, upper_stamp: 9".
RangeTextLowerThenUpper ==
    /\ call.op \in RenderOps =>
          LET r == range[call.self]
              lo == Dec(r.lower_stamp)
              hi == Dec(r.upper_stamp)
          IN  /\ call.val = call.prior \o <<"lower_stamp: ">> \o lo
                                       \o <<", upper_stamp: ">> \o hi
              /\ ParseDec(lo) = r.lower_stamp
              /\ ParseDec(hi) = r.upper_stamp
    /\ \A r \in RangeIds, prior \in Priors :
          (range[r] # NoRange /\ S \in IntegralTypes) =>
              OstreamCaptureRange(prior, range[r])
                = OstreamCaptureRangeTemplate(prior, range[r])
    /\ OstreamCaptureRange(<<>>, CaptureRangeCtor(3, 9))
          = <<"lower_stamp: ", "3", ", upper_stamp: ", "9">>
    /\ OstreamCaptureRangeTemplate(<<>>, CaptureRangeCtor(-120, 4096))
          = <<"lower_stamp: ", "-", "1", "2", "0",
              ", upper_stamp: ", "4", "0", "9", "6">>

\* C9 happens: a range constructed as (a, b) with a negative and a < b has
\* been printed by the friend operator.
RangeTextSeen ==
    /\ call.op = "ostream"
    /\ range[call.self].lower_stamp < 0
    /\ range[call.self].lower_stamp < range[call.self].upper_stamp

\* the stamps of the three operands are totally ordered by <
TotallyOrdered ==
    \A i \in OrderIds, j \in OrderIds :
        \/ StampLess(S, dargs[i].stamp, dargs[j].stamp)
        \/ StampEq(S, dargs[i].stamp, dargs[j].stamp)
        \/ StampLess(S, dargs[j].stamp, dargs[i].stamp)

Incomparable(i, j) ==
    ~lt[i][j] /\ ~lt[j][i]

\* C10: over totally ordered stamps operator< is a strict weak ordering:
\* irreflexive, asymmetric, transitive, with incomparability transitive and
\* holding exactly when the stamps are equal.
StrictWeakOrdering ==
    (lt # <<>> /\ TotallyOrdered) =>
        /\ \A i \in OrderIds : ~lt[i][i]
        /\ \A i \in OrderIds, j \in OrderIds : lt[i][j] => ~lt[j][i]
        /\ \A i \in OrderIds, j \in OrderIds, k \in OrderIds :
              (lt[i][j] /\ lt[j][k]) => lt[i][k]
        /\ \A i \in OrderIds, j \in OrderIds, k \in OrderIds :
              (Incomparable(i, j) /\ Incomparable(j, k)) => Incomparable(i, k)
        /\ \A i \in OrderIds, j \in OrderIds :
              Incomparable(i, j) <=> StampEq(S, dargs[i].stamp, dargs[j].stamp)

\* C10 happens: two operands with one stamp and different values, both less
\* than the third.
RepeatedStampsOrdered ==
    /\ lt # <<>> /\ TotallyOrdered
    /\ dargs[1].stamp = dargs[2].stamp /\ dargs[1].value # dargs[2].value
    /\ Incomparable(1, 2)
    /\ lt[1][3] /\ lt[2][3]

====
